---- MODULE Spec2Model ----
(***************************************************************************)
(* Model of the legacy reimbursement replica:                              *)
(*   src/calculate_reimbursement.py            (variant "legacy")          *)
(*   src/calculate_reimbursement_optimized.py  (variant "optimized")       *)
(*   src/train_parameters.py                   (the grid-search trainer)   *)
(*                                                                         *)
(* Representation of numbers.  Python floats are modelled in fixed point:  *)
(* every real-valued quantity (miles, receipts, rates per day, amounts,    *)
(* logarithms) is an integer count of 1/10000 ("FP units").  Rates and     *)
(* multipliers of ModelConfig are integers in units of 1/100000 (five      *)
(* decimals, the precision the legacy variant writes them with);           *)
(* interaction_coeff is in units of 1/100000000.  Products and quotients   *)
(* round towards minus infinity at that resolution.  Comparisons against   *)
(* the thresholds of the source are exact for inputs with two decimals.    *)
(* The one place where the binary representation of a float decides the    *)
(* outcome, the cents test of the rounding bug, is modelled bit-exactly    *)
(* (see FloatCentsError).                                                  *)
(***************************************************************************)
EXTENDS Integers, Sequences, FiniteSets, TLC

\* one unit = 1/10000
FP == 100 * 100

\* value of a two-decimal quantity given in hundredths, in FP units
FromHundredths(h) == h * 100

\* floor(a * m / 100000) for an FP amount a and a five-decimal factor m >= 0,
\* computed without leaving the 32-bit range of TLC's integers
Mul(a, m) ==
    LET aH == a \div 100000
        aL == a % 100000
        mH == m \div 1000
        mL == m % 1000
        t  == aL * mH
        u  == aL * mL
    IN  aH * m + (t \div 100) + (((t % 100) * 1000 + u) \div 100000)

RECURSIVE Pow2(_)
Pow2(k) == IF k <= 0 THEN 1 ELSE 2 * Pow2(k - 1)

\* 2^k mod q
RECURSIVE Pow2Mod(_, _)
Pow2Mod(k, q) == IF k <= 0 THEN 1 % q ELSE (2 * Pow2Mod(k - 1, q)) % q

\* largest q >= p with 2^q * d <= n, given pw = 2^p * d <= n   (n >= d >= 1)
RECURSIVE FloorLog2Up(_, _, _)
FloorLog2Up(n, pw, p) ==
    IF p < 29 /\ 2 * pw <= n THEN FloorLog2Up(n, 2 * pw, p + 1) ELSE p

\* largest p < 0 with 2^p * d <= n, returned as p  (1 <= n < d)
RECURSIVE FloorLog2Down(_, _, _)
FloorLog2Down(n, d, p) ==
    IF n * Pow2(p) >= d THEN -p ELSE FloorLog2Down(n, d, p + 1)

\* floor(log2(n / d)) for n >= 1, d >= 1
FloorLog2(n, d) ==
    IF n >= d THEN FloorLog2Up(n, d, 0) ELSE FloorLog2Down(n, d, 1)

(***************************************************************************)
(* math.log.  LnInt(n) is ln(n) in FP units for an integer n >= 1:         *)
(* n = 2^k * m with m in [1,2), ln(n) = k*ln(2) + 2*atanh((m-1)/(m+1)),    *)
(* the series taken to the ninth power.  Ln(x) is ln(x / FP) for an FP     *)
(* value x > 0.                                                            *)
(***************************************************************************)
\* ln(nn / 65536) for nn in 65536..131071
LnMantissa(nn) ==
    LET z   == ((nn - 65536) * FP) \div (nn + 65536)
        z2  == (z * z) \div FP
        z3  == (z * z2) \div FP
        z5  == (z3 * z2) \div FP
        z7  == (z5 * z2) \div FP
        z9  == (z7 * z2) \div FP
    IN  2 * (z + (z3 \div 3) + (z5 \div 5) + (z7 \div 7) + (z9 \div 9))

\* ln(n) given k = floor(log2 n)
LnScaled(n, k) ==
    (k * 693147) \div 100
    + LnMantissa(IF k >= 16 THEN n \div Pow2(k - 16) ELSE n * Pow2(16 - k))

LnInt(n) == LnScaled(n, FloorLog2(n, 1))

\* ln(FP), the offset between an FP value and the number it stands for
LnOfUnit == LnInt(FP)

Ln(x) == LnInt(x) - LnOfUnit

\* round(x, 2): to the nearest hundredth, an exact tie to the even hundredth
Round2(x) ==
    LET q == x \div 100
        r == x % 100
    IN  IF r > 50 \/ (r = 50 /\ q % 2 = 1) THEN (q + 1) * 100 ELSE q * 100

Max(a, b) == IF a >= b THEN a ELSE b
Min(a, b) == IF a <= b THEN a ELSE b
Abs(a) == IF a < 0 THEN -a ELSE a

(***************************************************************************)
(* The float behind the cents test.  For receipts of n hundredths the      *)
(* source computes fl(fl(n/100) * 100) in IEEE double.  With               *)
(* p = floor(log2(n/100)) and k = 52 - p the stored double is              *)
(* (n * 2^k + s) / 100 * 2^-k, where s in -50..50 makes the numerator a    *)
(* multiple of 100 (nearest, ties to even), so the exact product is        *)
(* n + s * 2^-k; it rounds back to n unless |s| exceeds half an ulp of n,  *)
(* which is 32 (in units of 2^-k) when floor(log2 n) - p = 6 and 64 when   *)
(* it is 7.  The result is the sign of fl(fl(n/100)*100) - n.              *)
(***************************************************************************)
\* for a > 0 hundredths, p = floor(log2(a/100)) and q = floor(log2 a)
FloatCentsErrorAt(a, p, q) ==
    LET k      == 52 - p
        rem200 == ((a % 200) * Pow2Mod(k, 200)) % 200
        rem    == rem200 % 100
        odd    == rem200 \div 100
        s      == IF rem < 50 THEN -rem
                  ELSE IF rem > 50 THEN 100 - rem
                  ELSE IF odd = 1 THEN 50 ELSE -50
        half   == IF q - p = 6 THEN 32 ELSE 64
    IN  IF Abs(s) <= half THEN 0 ELSE IF s > 0 THEN 1 ELSE -1

FloatCentsError(n) ==
    IF n = 0 THEN 0
    ELSE IF n > 0 THEN FloatCentsErrorAt(n, FloorLog2(n, 100), FloorLog2(n, 1))
    ELSE -FloatCentsErrorAt(-n, FloorLog2(-n, 100), FloorLog2(-n, 1))

(***************************************************************************)
(* ModelConfig.  Both variants write the same constants; the optimized     *)
(* variant writes them with fifteen digits, which agree with the legacy    *)
(* ones at five decimals.                                                  *)
(***************************************************************************)
ModelConfig ==
    [ base_per_diem                   |-> 4551959,
      mileage_rates                   |-> <<78707, 45114, 20083>>,
      receipt_rates                   |-> <<39998, 30454, 43686, 12188>>,
      cluster_multipliers             |-> <<114757, 111176, 120275, 119116, 107688, 121401>>,
      vacation_bonus_multiplier       |-> 104678,
      vacation_base_multiplier        |-> 107235,
      five_day_multiplier             |-> 108250,
      receipt_threshold_multiplier    |-> 119667,
      efficiency_threshold_multiplier |-> 101898,
      miles_threshold_multiplier      |-> 102133,
      interaction_coeff               |-> 55520,
      log_bonus_coeff                 |-> 512776,
      bug_base_bonus                  |-> 2069937,
      bug_multiplier                  |-> 617 ]

Variants == {"legacy", "optimized"}

\* features[0][i] of the source: the feature vector is a 0-indexed list
Feat(features, i) == features[i + 1]

\* list[i] of a 0-indexed Python list held as a sequence
At(list, i) == list[i + 1]

Flag(b) == IF b THEN 1 ELSE 0

(***************************************************************************)
(* receipt_cents and receipt_ends_49_99.  The legacy variant compares the  *)
(* float (receipts * 100) % 100 with 49 and 99, so it holds only when the  *)
(* float product is the exact integer; the optimized variant rounds the    *)
(* remainder to the nearest integer first.                                 *)
(***************************************************************************)
\* receipt_cents for receipts whose hundredths end in cents, e the sign of the
\* float error of receipts * 100: the nearest integer, and whether the float is it
receipt_cents(variant, cents, e) ==
    IF variant = "legacy"
    THEN [whole |-> cents, exact |-> (e = 0)]
    ELSE [whole |-> IF cents = 0 /\ e = -1 THEN 100 ELSE cents, exact |-> TRUE]

\* x in [49, 99] for a receipt_cents x
In4999(x) == x.exact /\ x.whole \in {49, 99}

ReceiptEnds4999(variant, total_receipts_amount) ==
    Flag(In4999(receipt_cents(variant, (total_receipts_amount \div 100) % 100,
                              FloatCentsError(total_receipts_amount \div 100))))

\* the exception engineer_features raises, "none" when it returns
FeatureError(trip_duration_days, miles_traveled, total_receipts_amount) ==
    IF trip_duration_days = 0 THEN "ZeroDivisionError"
    ELSE IF trip_duration_days + 1 <= 0 THEN "ValueError"
    ELSE IF miles_traveled + FP <= 0 THEN "ValueError"
    ELSE IF total_receipts_amount + FP <= 0 THEN "ValueError"
    ELSE "none"

(***************************************************************************)
(* engineer_features: the 37-element feature vector, in the order of the   *)
(* source.  Real-valued features are FP values; the products and squares   *)
(* at indices 21 and 27..30 are in whole units, the ratios at 4, 34, 35    *)
(* in hundredths.                                                          *)
(***************************************************************************)
engineer_features(variant, trip_duration_days, miles_traveled, total_receipts_amount) ==
    LET receipts_per_day  == total_receipts_amount \div trip_duration_days
        receipts_per_mile == IF miles_traveled > 0
                             THEN ((total_receipts_amount \div 100) * 100) \div (miles_traveled \div 100)
                             ELSE 0
        miles_per_day     == miles_traveled \div trip_duration_days
        efficiency_bonus_zone   == Flag(180 * FP <= miles_per_day /\ miles_per_day <= 220 * FP)
        efficiency_penalty_zone == Flag(miles_per_day > 300 * FP)
        very_low_receipts       == Flag(total_receipts_amount < 50 * FP)
        optimal_receipt_range   == Flag(600 * FP <= total_receipts_amount /\ total_receipts_amount <= 800 * FP)
        high_spending_flag      == Flag(total_receipts_amount > 1000 * FP)
        receipt_ends_49_99      == ReceiptEnds4999(variant, total_receipts_amount)
        is_5_day_trip           == Flag(trip_duration_days = 5)
        is_sweet_spot_duration  == Flag(4 <= trip_duration_days /\ trip_duration_days <= 6)
        duration_penalty_zone   == Flag(trip_duration_days < 2 \/ trip_duration_days > 10)
        very_short_trip         == Flag(trip_duration_days = 1)
        very_long_trip          == Flag(trip_duration_days >= 8)
        sweet_spot_combo    == Flag(trip_duration_days = 5 /\ miles_per_day >= 180 * FP /\ receipts_per_day < 100 * FP)
        vacation_penalty    == Flag(trip_duration_days >= 8 /\ receipts_per_day > 120 * FP)
        high_mile_low_spend == Flag(miles_per_day > 200 * FP /\ receipts_per_day < 80 * FP)
        low_mile_high_spend == Flag(miles_per_day < 100 * FP /\ receipts_per_day > 100 * FP)
        efficiency_spending_interaction == (miles_per_day \div FP) * (receipts_per_day \div FP)
        duration_efficiency_interaction == trip_duration_days * miles_per_day
        duration_spending_interaction   == trip_duration_days * receipts_per_day
        short_high_efficiency == Flag(trip_duration_days <= 3 /\ miles_per_day > 150 * FP)
        long_low_efficiency   == Flag(trip_duration_days >= 7 /\ miles_per_day < 100 * FP)
        medium_balanced       == Flag(4 <= trip_duration_days /\ trip_duration_days <= 6
                                      /\ 100 * FP <= miles_per_day /\ miles_per_day <= 200 * FP
                                      /\ 50 * FP <= receipts_per_day /\ receipts_per_day <= 150 * FP)
        log_trip_duration  == Ln(trip_duration_days * FP + FP)
        log_miles_traveled == Ln(miles_traveled + FP)
        log_receipts       == Ln(total_receipts_amount + FP)
        trip_duration_squared  == trip_duration_days * trip_duration_days
        miles_traveled_squared == (miles_traveled \div FP) * (miles_traveled \div FP)
        receipts_squared       == (total_receipts_amount \div FP) * (total_receipts_amount \div FP)
        trip_duration_cubed    == trip_duration_days * trip_duration_days * trip_duration_days
        total_efficiency   == ((miles_traveled \div 100) * trip_duration_days * 100)
                                 \div ((total_receipts_amount + FP) \div 100)
        cost_per_mile      == IF miles_traveled > 0
                              THEN ((total_receipts_amount \div 100) * 100) \div (miles_traveled \div 100)
                              ELSE 0
        productivity_score == ((miles_traveled \div 100) * FP)
                                 \div (trip_duration_days * ((total_receipts_amount + FP) \div 100))
    IN  << trip_duration_days, miles_traveled, total_receipts_amount,
           receipts_per_day, receipts_per_mile, miles_per_day,
           efficiency_bonus_zone, efficiency_penalty_zone,
           very_low_receipts, optimal_receipt_range, high_spending_flag,
           receipt_ends_49_99,
           is_5_day_trip, is_sweet_spot_duration, duration_penalty_zone,
           very_short_trip, very_long_trip,
           sweet_spot_combo, vacation_penalty, high_mile_low_spend, low_mile_high_spend,
           efficiency_spending_interaction, duration_efficiency_interaction, duration_spending_interaction,
           short_high_efficiency, long_low_efficiency, medium_balanced,
           trip_duration_squared, miles_traveled_squared, receipts_squared, trip_duration_cubed,
           log_trip_duration, log_miles_traveled, log_receipts,
           total_efficiency, cost_per_mile, productivity_score >>

(***************************************************************************)
(* determine_cluster.  is_trained is set False by the constructor and      *)
(* never assigned again, so the rule table is the branch that runs.        *)
(* trip_duration <= 1.5 is trip_duration <= 1 for an integer duration.     *)
\* the rule table with rule 5 tried before rule 2
determine_cluster_long_trips_first(features) ==
    LET trip_duration    == Feat(features, 0)
        receipts         == Feat(features, 2)
        miles_per_day    == Feat(features, 5)
    IN  IF 2 * trip_duration <= 3 /\ miles_per_day > 500 * FP THEN 0
        ELSE IF trip_duration > 8 /\ receipts > 1200 * FP THEN 4
        ELSE IF trip_duration > 8 /\ miles_per_day < 50 * FP THEN 1
        ELSE IF 3 <= trip_duration /\ trip_duration <= 5 /\ receipts > 1500 * FP THEN 2
        ELSE IF 4 <= trip_duration /\ trip_duration <= 7 /\ miles_per_day > 150 * FP
                /\ receipts < 800 * FP THEN 3
        ELSE 5

(***************************************************************************)
determine_cluster(features) ==
    LET trip_duration    == Feat(features, 0)
        miles_traveled   == Feat(features, 1)
        receipts         == Feat(features, 2)
        miles_per_day    == Feat(features, 5)
        receipts_per_day == Feat(features, 3)
    IN  IF 2 * trip_duration <= 3 /\ miles_per_day > 500 * FP THEN 0
        ELSE IF trip_duration > 8 /\ miles_per_day < 50 * FP THEN 1
        ELSE IF 3 <= trip_duration /\ trip_duration <= 5 /\ receipts > 1500 * FP THEN 2
        ELSE IF 4 <= trip_duration /\ trip_duration <= 7 /\ miles_per_day > 150 * FP
                /\ receipts < 800 * FP THEN 3
        ELSE IF trip_duration > 8 /\ receipts > 1200 * FP THEN 4
        ELSE 5

\* a bug emulator that takes the bonus away
apply_rounding_bug_subtracting(config, amount, receipt_ends_49_99) ==
    IF receipt_ends_49_99 # 0
    THEN amount - (config.bug_base_bonus \div 10 + Mul(amount, config.bug_multiplier))
    ELSE amount

\* apply_rounding_bug
apply_rounding_bug(config, amount, receipt_ends_49_99) ==
    IF receipt_ends_49_99 # 0
    THEN LET bug_bonus == config.bug_base_bonus \div 10 + Mul(amount, config.bug_multiplier)
         IN  amount + bug_bonus
    ELSE amount
(***************************************************************************)
(* calculate_base_reimbursement.  The variants differ in the receipt       *)
(* tiers: the legacy one anchors them at the flat amounts 15, 180, 300,    *)
(* the optimized one at 50, 450 and 1000 times the tier's rate.            *)
(***************************************************************************)
calculate_base_reimbursement(variant, config, trip_duration_days, miles_traveled, total_receipts_amount) ==
    LET base_per_diem == (config.base_per_diem * trip_duration_days) \div 10
        mileage_reimbursement ==
            IF miles_traveled <= 100 * FP
            THEN Mul(miles_traveled, At(config.mileage_rates, 0))
            ELSE IF miles_traveled <= 500 * FP
            THEN Mul(100 * FP, At(config.mileage_rates, 0))
                 + Mul(miles_traveled - 100 * FP, At(config.mileage_rates, 1))
            ELSE Mul(100 * FP, At(config.mileage_rates, 0))
                 + Mul(400 * FP, At(config.mileage_rates, 1))
                 + Mul(miles_traveled - 500 * FP, At(config.mileage_rates, 2))
        tier1 == IF variant = "legacy" THEN 15 * FP
                 ELSE Mul(50 * FP, At(config.receipt_rates, 0))
        tier2 == IF variant = "legacy" THEN 180 * FP
                 ELSE Mul(450 * FP, At(config.receipt_rates, 1))
        tier3 == IF variant = "legacy" THEN 300 * FP
                 ELSE Mul(1000 * FP, At(config.receipt_rates, 2))
        receipt_reimbursement ==
            IF total_receipts_amount <= 50 * FP
            THEN Mul(total_receipts_amount, At(config.receipt_rates, 0))
            ELSE IF total_receipts_amount <= 500 * FP
            THEN tier1 + Mul(total_receipts_amount - 50 * FP, At(config.receipt_rates, 1))
            ELSE IF total_receipts_amount <= 1500 * FP
            THEN tier1 + tier2 + Mul(total_receipts_amount - 500 * FP, At(config.receipt_rates, 2))
            ELSE tier1 + tier2 + tier3
                 + Mul(total_receipts_amount - 1500 * FP, At(config.receipt_rates, 3))
    IN  base_per_diem + mileage_reimbursement + receipt_reimbursement

\* the special case attached to path 3 instead of path 4
apply_cluster_adjustments_on_path_3(config, base_amount, cluster, features) ==
    IF cluster = 3 /\ Feat(features, 18) # 0
    THEN Mul(base_amount, config.vacation_bonus_multiplier)
    ELSE IF cluster = 3
    THEN Mul(base_amount, config.vacation_base_multiplier)
    ELSE Mul(base_amount, At(config.cluster_multipliers, cluster))

\* every path, path 4 too, multiplied by its entry of the table
apply_cluster_adjustments_from_table(config, base_amount, cluster, features) ==
    Mul(base_amount, At(config.cluster_multipliers, cluster))

\* apply_cluster_adjustments
apply_cluster_adjustments(config, base_amount, cluster, features) ==
    LET vacation_penalty == Feat(features, 18)
    IN  IF cluster = 4 /\ vacation_penalty # 0
        THEN Mul(base_amount, config.vacation_bonus_multiplier)
        ELSE IF cluster = 4
        THEN Mul(base_amount, config.vacation_base_multiplier)
        ELSE Mul(base_amount, At(config.cluster_multipliers, cluster))

\* the four tests as one if/elif chain: only the first that holds multiplies
apply_threshold_effects_first_match_only(config, amount, features) ==
    IF Feat(features, 12) # 0 THEN Mul(amount, config.five_day_multiplier)
    ELSE IF Feat(features, 2) > 6605400 THEN Mul(amount, config.receipt_threshold_multiplier)
    ELSE IF Feat(features, 5) > 1870100 THEN Mul(amount, config.efficiency_threshold_multiplier)
    ELSE IF Feat(features, 1) > 4738000 THEN Mul(amount, config.miles_threshold_multiplier)
    ELSE amount

\* the four tests in the order (d), (c), (b), (a)
apply_threshold_effects_reversed(config, amount, features) ==
    LET a1 == IF Feat(features, 1) > 4738000 THEN Mul(amount, config.miles_threshold_multiplier) ELSE amount
        a2 == IF Feat(features, 5) > 1870100 THEN Mul(a1, config.efficiency_threshold_multiplier) ELSE a1
        a3 == IF Feat(features, 2) > 6605400 THEN Mul(a2, config.receipt_threshold_multiplier) ELSE a2
        a4 == IF Feat(features, 12) # 0 THEN Mul(a3, config.five_day_multiplier) ELSE a3
    IN  a4

\* apply_threshold_effects: four tests in sequence on the running amount
apply_threshold_effects(config, amount, features) ==
    LET trip_duration  == Feat(features, 0)
        miles_traveled == Feat(features, 1)
        total_receipts == Feat(features, 2)
        miles_per_day  == Feat(features, 5)
        is_5_day_trip  == Feat(features, 12)
        a1 == IF is_5_day_trip # 0 THEN Mul(amount, config.five_day_multiplier) ELSE amount
        a2 == IF total_receipts > 6605400 THEN Mul(a1, config.receipt_threshold_multiplier) ELSE a1
        a3 == IF miles_per_day > 1870100 THEN Mul(a2, config.efficiency_threshold_multiplier) ELSE a2
        a4 == IF miles_traveled > 4738000 THEN Mul(a3, config.miles_threshold_multiplier) ELSE a3
    IN  a4

\* calculate_reimbursement, the interaction effects: final_amount += ...
interaction_effects(config, final_amount, features) ==
    LET duration_spending_interaction == Feat(features, 23)
        log_receipts      == Feat(features, 32)
        interaction_bonus == Mul(duration_spending_interaction, config.interaction_coeff) \div 1000
        log_bonus         == Mul(log_receipts, config.log_bonus_coeff)
    IN  final_amount + (interaction_bonus + log_bonus)

\* a clamp that forgets the upper bound
clamp_without_upper_bound(final_amount) == Max(50 * FP, final_amount)

\* calculate_reimbursement: final_amount = max(50.0, min(final_amount, 5000.0))
clamp(final_amount) == Max(50 * FP, Min(final_amount, 5000 * FP))

(***************************************************************************)
(* calculate_reimbursement as a function, the way evaluate_config and      *)
(* analyze_high_error_cases call it: the exception it raises, or "none"    *)
(* and the amount it returns.                                              *)
(***************************************************************************)
\* the statements of calculate_reimbursement that follow the feature engineering
score_features(variant, config, trip_duration_days, miles_traveled, total_receipts_amount, features) ==
    Round2(clamp(
        interaction_effects(config,
            apply_rounding_bug(config,
                apply_threshold_effects(config,
                    apply_cluster_adjustments(config,
                        calculate_base_reimbursement(variant, config, trip_duration_days,
                                                     miles_traveled, total_receipts_amount),
                        determine_cluster(features),
                        features),
                    features),
                Feat(features, 11)),
            features)))

\* calculate_reimbursement: the exception it raises, or the amount it returns
calculate_reimbursement(variant, config, trip_duration_days, miles_traveled, total_receipts_amount) ==
    IF FeatureError(trip_duration_days, miles_traveled, total_receipts_amount) # "none"
    THEN [ raised |-> FeatureError(trip_duration_days, miles_traveled, total_receipts_amount),
           amount |-> 0 ]
    ELSE [ raised |-> "none",
           amount |-> score_features(variant, config, trip_duration_days, miles_traveled,
                                     total_receipts_amount,
                                     engineer_features(variant, trip_duration_days, miles_traveled,
                                                       total_receipts_amount)) ]

(***************************************************************************)
(* State.  One run of one program: the command line (main) or a direct     *)
(* call of calculate_reimbursement, stepped statement by statement, or     *)
(* the trainer (optimize_parameters), stepped grid point by grid point.    *)
(***************************************************************************)
VARIABLES
    variant,                \* which source file's LegacyReimbursementSystem runs
    config,                 \* system.config
    caller,                 \* "main", "direct" or "none"
    pc,                     \* the statement of calculate_reimbursement to run next
    trip_duration_days,     \* the three arguments of the call
    miles_traveled,
    total_receipts_amount,
    features,               \* locals of calculate_reimbursement
    cluster,
    base_amount,
    adjusted_amount,
    threshold_adjusted,
    final_amount,
    result,                 \* the value returned, -1 before the return
    exception,              \* the exception raised, "none" if none
    stderr,                 \* main: what was written to stderr
    printed,                \* main: the amount printed to stdout, -1 if none
    exit_code,              \* main: the process exit status, -1 while running
    first_call              \* direct caller: the first call that returned, what it returned,
                            \* and whether a different call was made since

scoreVars == << variant, config, caller, pc, trip_duration_days, miles_traveled,
                total_receipts_amount, features, cluster, base_amount, adjusted_amount,
                threshold_adjusted, final_amount, result, exception, stderr, printed,
                exit_code, first_call >>

locals == << features, cluster, base_amount, adjusted_amount, threshold_adjusted,
             final_amount >>

mainOut == << stderr, printed, exit_code >>

args == << trip_duration_days, miles_traveled, total_receipts_amount >>

\* the trainer (train_parameters.py), which imports the legacy variant
VARIABLES
    tpc,                    \* the statement of the trainer to run next
    inputs,                 \* load_training_data: the inputs, <<days, miles, receipts>> each
    targets,                \* load_training_data: the expected outputs
    current_error,          \* error of the baseline ModelConfig()
    high_error_cases,       \* analyze_high_error_cases under the baseline
    tested,                 \* grid points evaluated so far
    best_error,
    best_config,            \* the address of the retained configuration, None if none
    best_params,
    optimized_errors,       \* analyze_high_error_cases under best_config
    emitted,                \* the configuration generate_optimized_script writes out
    heap,                   \* the ModelConfig objects and lists the trainer can still reach
    best_evaluated          \* the values the retained configuration had when evaluated

trainVars == << tpc, inputs, targets, current_error, high_error_cases, tested,
                best_error, best_config, best_params, optimized_errors, emitted,
                heap, best_evaluated >>

vars == << variant, config, caller, pc, trip_duration_days, miles_traveled,
           total_receipts_amount, features, cluster, base_amount, adjusted_amount,
           threshold_adjusted, final_amount, result, exception, stderr, printed,
           exit_code, first_call, tpc, inputs, targets, current_error, high_error_cases, tested,
           best_error, best_config, best_params, optimized_errors, emitted,
           heap, best_evaluated >>

\* the inputs explored: days, and miles and receipts in hundredths
Durations == {-1, 0, 1, 4, 5, 8, 10, 14}
MilesInputs == {-100, -50, 0, 10000, 30000, 47380, 47381, 90000, 93505, 93506, 120000}
ReceiptInputs == {-100, -50, 0, 249, 4949, 4950, 66054, 66055, 79999, 120000, 150000,
                  150001, 250099, 3000000}

ValidInput(d, m, r) == d > 0 /\ m >= 0 /\ r >= 0

\* no call has returned yet
NoCall == [none |-> TRUE]

\* a configuration outside the trainer's grid: no per diem at all
ZeroPerDiemConfig == [ModelConfig EXCEPT !.base_per_diem = 0]

ScoreInit ==
    /\ variant = "legacy"
    /\ config = ModelConfig
    /\ caller = "none"
    /\ pc = "idle"
    /\ trip_duration_days = 0
    /\ miles_traveled = 0
    /\ total_receipts_amount = 0
    /\ features = << >>
    /\ cluster = -1
    /\ base_amount = 0
    /\ adjusted_amount = 0
    /\ threshold_adjusted = 0
    /\ final_amount = 0
    /\ result = -1
    /\ exception = "none"
    /\ stderr = ""
    /\ printed = -1
    /\ exit_code = -1
    /\ first_call = NoCall

\* main: len(sys.argv) != 4
MainUsage ==
    /\ pc = "idle"
    /\ pc' = "exit"
    /\ caller' = "main"
    /\ exit_code' = 1
    /\ UNCHANGED << variant, config, args, locals, result, exception, stderr, printed >>
    /\ UNCHANGED first_call
    /\ UNCHANGED trainVars

\* main: int() or float() of an argument raises ValueError
MainParseError ==
    /\ pc = "idle"
    /\ \E v \in Variants : variant' = v
    /\ pc' = "exit"
    /\ caller' = "main"
    /\ exception' = "ValueError"
    /\ stderr' = "Error: Invalid input parameters"
    /\ exit_code' = 1
    /\ UNCHANGED << config, args, locals, result, printed >>
    /\ UNCHANGED first_call
    /\ UNCHANGED trainVars

\* main: the arguments parse but fail the validation
MainInvalid ==
    /\ pc = "idle"
    /\ \E v \in Variants, d \in Durations, m \in MilesInputs, r \in ReceiptInputs :
          /\ d <= 0 \/ m < 0 \/ r < 0
          /\ variant' = v
          /\ trip_duration_days' = d
          /\ miles_traveled' = FromHundredths(m)
          /\ total_receipts_amount' = FromHundredths(r)
    /\ pc' = "exit"
    /\ caller' = "main"
    /\ exception' = "ValueError"
    /\ stderr' = "Error: Invalid input parameters"
    /\ exit_code' = 1
    /\ UNCHANGED << config, locals, result, printed >>
    /\ UNCHANGED first_call
    /\ UNCHANGED trainVars

\* main: the arguments pass the validation, the system is built and called
MainCall ==
    /\ pc = "idle"
    /\ \E v \in Variants, d \in Durations, m \in MilesInputs, r \in ReceiptInputs :
          /\ ~(d <= 0 \/ m < 0 \/ r < 0)
          /\ variant' = v
          /\ trip_duration_days' = d
          /\ miles_traveled' = FromHundredths(m)
          /\ total_receipts_amount' = FromHundredths(r)
    /\ config' = ModelConfig
    /\ caller' = "main"
    /\ pc' = "features"
    /\ UNCHANGED << locals, result, exception, mainOut >>
    /\ UNCHANGED first_call
    /\ UNCHANGED trainVars

\* calculate_reimbursement called on a system by other code, with any arguments
DirectCall ==
    /\ pc = "idle"
    /\ \E v \in Variants, c \in {ModelConfig, ZeroPerDiemConfig},
          d \in Durations, m \in MilesInputs, r \in ReceiptInputs :
          /\ variant' = v
          /\ config' = c
          /\ trip_duration_days' = d
          /\ miles_traveled' = FromHundredths(m)
          /\ total_receipts_amount' = FromHundredths(r)
    /\ caller' = "direct"
    /\ pc' = "features"
    /\ UNCHANGED << locals, result, exception, mainOut >>
    /\ UNCHANGED first_call
    /\ UNCHANGED trainVars

\* features = self.engineer_features(...)
EngineerFeatures ==
    /\ pc = "features"
    /\ LET err == FeatureError(trip_duration_days, miles_traveled, total_receipts_amount)
       IN  IF err # "none"
           THEN /\ exception' = err
                /\ pc' = "raised"
                /\ UNCHANGED features
           ELSE /\ features' = engineer_features(variant, trip_duration_days, miles_traveled,
                                                 total_receipts_amount)
                /\ pc' = "cluster"
                /\ UNCHANGED exception
    /\ UNCHANGED << variant, config, caller, args, cluster, base_amount, adjusted_amount,
                    threshold_adjusted, final_amount, result, mainOut >>
    /\ UNCHANGED first_call
    /\ UNCHANGED trainVars

\* cluster = self.determine_cluster(features)
DetermineCluster ==
    /\ pc = "cluster"
    /\ cluster' = determine_cluster(features)
    /\ pc' = "base"
    /\ UNCHANGED << variant, config, caller, args, features, base_amount, adjusted_amount,
                    threshold_adjusted, final_amount, result, exception, mainOut >>
    /\ UNCHANGED first_call
    /\ UNCHANGED trainVars

\* base_amount = self.calculate_base_reimbursement(...)
CalculateBase ==
    /\ pc = "base"
    /\ base_amount' = calculate_base_reimbursement(variant, config, trip_duration_days,
                                                   miles_traveled, total_receipts_amount)
    /\ pc' = "adjust"
    /\ UNCHANGED << variant, config, caller, args, features, cluster, adjusted_amount,
                    threshold_adjusted, final_amount, result, exception, mainOut >>
    /\ UNCHANGED first_call
    /\ UNCHANGED trainVars

\* adjusted_amount = self.apply_cluster_adjustments(base_amount, cluster, features)
ApplyClusterAdjustments ==
    /\ pc = "adjust"
    /\ adjusted_amount' = apply_cluster_adjustments(config, base_amount, cluster, features)
    /\ pc' = "threshold"
    /\ UNCHANGED << variant, config, caller, args, features, cluster, base_amount,
                    threshold_adjusted, final_amount, result, exception, mainOut >>
    /\ UNCHANGED first_call
    /\ UNCHANGED trainVars

\* threshold_adjusted = self.apply_threshold_effects(adjusted_amount, features)
ApplyThresholdEffects ==
    /\ pc = "threshold"
    /\ threshold_adjusted' = apply_threshold_effects(config, adjusted_amount, features)
    /\ pc' = "bug"
    /\ UNCHANGED << variant, config, caller, args, features, cluster, base_amount,
                    adjusted_amount, final_amount, result, exception, mainOut >>
    /\ UNCHANGED first_call
    /\ UNCHANGED trainVars

\* a bug emulator fed the amount from before the threshold corrections
ApplyRoundingBugOnAdjusted ==
    /\ pc = "bug"
    /\ LET receipt_ends_49_99 == Feat(features, 11)
       IN  final_amount' = threshold_adjusted
                             + (apply_rounding_bug(config, adjusted_amount, receipt_ends_49_99)
                                - adjusted_amount)
    /\ pc' = "interaction"
    /\ UNCHANGED << variant, config, caller, args, features, cluster, base_amount,
                    adjusted_amount, threshold_adjusted, result, exception, mainOut >>
    /\ UNCHANGED first_call
    /\ UNCHANGED trainVars

\* final_amount = self.apply_rounding_bug(threshold_adjusted, features[0][11])
ApplyRoundingBug ==
    /\ pc = "bug"
    /\ LET receipt_ends_49_99 == Feat(features, 11)
       IN  final_amount' = apply_rounding_bug(config, threshold_adjusted, receipt_ends_49_99)
    /\ pc' = "interaction"
    /\ UNCHANGED << variant, config, caller, args, features, cluster, base_amount,
                    adjusted_amount, threshold_adjusted, result, exception, mainOut >>
    /\ UNCHANGED first_call
    /\ UNCHANGED trainVars

\* a scoring step that writes to the system: it also adjusts a coefficient
ApplyInteractionWritingConfig ==
    /\ pc = "interaction"
    /\ final_amount' = interaction_effects(config, final_amount, features)
    /\ config' = [ config EXCEPT !.interaction_coeff = @ + 1 ]
    /\ pc' = "clamp"
    /\ UNCHANGED << variant, caller, args, features, cluster, base_amount,
                    adjusted_amount, threshold_adjusted, result, exception, mainOut >>
    /\ UNCHANGED first_call
    /\ UNCHANGED trainVars

\* final_amount += interaction_bonus + log_bonus
ApplyInteraction ==
    /\ pc = "interaction"
    /\ final_amount' = interaction_effects(config, final_amount, features)
    /\ pc' = "clamp"
    /\ UNCHANGED << variant, config, caller, args, features, cluster, base_amount,
                    adjusted_amount, threshold_adjusted, result, exception, mainOut >>
    /\ UNCHANGED first_call
    /\ UNCHANGED trainVars

\* final_amount = max(50.0, min(final_amount, 5000.0))
Clamp ==
    /\ pc = "clamp"
    /\ final_amount' = clamp(final_amount)
    /\ pc' = "round"
    /\ UNCHANGED << variant, config, caller, args, features, cluster, base_amount,
                    adjusted_amount, threshold_adjusted, result, exception, mainOut >>
    /\ UNCHANGED first_call
    /\ UNCHANGED trainVars

\* return round(final_amount, 2)
RoundReturn ==
    /\ pc = "round"
    /\ result' = Round2(final_amount)
    /\ pc' = "returned"
    /\ first_call' =
          IF caller = "direct" /\ first_call = NoCall
          THEN [ config |-> config, trip_duration_days |-> trip_duration_days,
                 miles_traveled |-> miles_traveled,
                 total_receipts_amount |-> total_receipts_amount,
                 features |-> features, cluster |-> cluster,
                 amount |-> Round2(final_amount), others_since |-> FALSE ]
          ELSE first_call
    /\ UNCHANGED << variant, config, caller, args, locals, exception, mainOut >>
    /\ UNCHANGED trainVars

\* arguments with which the caller calls between two calls of interest
InterleavedInputs == { << 5, 900 * FP, 494900 >>, << 0, 100 * FP, 100 * FP >> }

(***************************************************************************)
(* The direct caller calls calculate_reimbursement again on the same       *)
(* system, after a return or after an exception, having possibly assigned  *)
(* system.config (as evaluate_config does): with the arguments of the      *)
(* first call that returned, or with other ones.  The call gets a fresh    *)
(* frame; the system object is what it was.                                *)
(***************************************************************************)
CallAgain ==
    /\ pc \in {"returned", "raised"}
    /\ caller = "direct"
    /\ first_call # NoCall
    /\ \E c \in {ModelConfig, ZeroPerDiemConfig},
          a \in InterleavedInputs
                 \cup { << first_call.trip_duration_days, first_call.miles_traveled,
                           first_call.total_receipts_amount >> } :
          /\ config' = c
          /\ trip_duration_days' = a[1]
          /\ miles_traveled' = a[2]
          /\ total_receipts_amount' = a[3]
          /\ first_call' =
                [ first_call EXCEPT !.others_since =
                    \/ @
                    \/ c # first_call.config
                    \/ a # << first_call.trip_duration_days, first_call.miles_traveled,
                              first_call.total_receipts_amount >> ]
    /\ features' = << >>
    /\ cluster' = -1
    /\ base_amount' = 0
    /\ adjusted_amount' = 0
    /\ threshold_adjusted' = 0
    /\ final_amount' = 0
    /\ result' = -1
    /\ exception' = "none"
    /\ pc' = "features"
    /\ UNCHANGED << variant, caller, mainOut >>
    /\ UNCHANGED trainVars

\* main: print(f"{reimbursement:.2f}")
MainPrint ==
    /\ pc = "returned"
    /\ caller = "main"
    /\ printed' = result
    /\ exit_code' = 0
    /\ pc' = "exit"
    /\ UNCHANGED << variant, config, caller, args, locals, result, exception, stderr >>
    /\ UNCHANGED first_call
    /\ UNCHANGED trainVars

ScoreNext ==
    \/ MainUsage
    \/ MainParseError
    \/ MainInvalid
    \/ MainCall
    \/ DirectCall
    \/ CallAgain
    \/ EngineerFeatures
    \/ DetermineCluster
    \/ CalculateBase
    \/ ApplyClusterAdjustments
    \/ ApplyThresholdEffects
    \/ ApplyRoundingBug
    \/ ApplyInteraction
    \/ Clamp
    \/ RoundReturn
    \/ MainPrint
(***************************************************************************)
(* The trainer.                                                            *)
(***************************************************************************)
\* float('inf'): above every error the trainer can compute
Infinity == 2147483647

\* the exception handler of evaluate_config: errors.append(1000.0)
FailurePenalty == 1000 * FP

\* param_ranges, in the order of the dictionary
ParamRanges ==
    << << 100000, 110000, 120000, 130000, 140000, 150000 >>,
       << 102000, 103000, 105000, 107000, 110000 >>,
       << 150000, 200000, 250000, 300000, 350000 >>,
       << 4500000, 5000000, 5500000, 6000000 >>,
       << 25000, 30000, 35000, 40000 >> >>

RECURSIVE ProductOfLengths(_, _)
ProductOfLengths(ranges, i) ==
    IF i > Len(ranges) THEN 1 ELSE Len(ranges[i]) * ProductOfLengths(ranges, i + 1)

total_combinations == ProductOfLengths(ParamRanges, 1)

\* the i-th tuple (i counted from 0) that product(*param_ranges.values()) yields:
\* the last range varies fastest
GridPoint(i) ==
    [ j \in 1..Len(ParamRanges) |->
        LET stride == ProductOfLengths(ParamRanges, j + 1)
        IN  ParamRanges[j][((i \div stride) % Len(ParamRanges[j])) + 1] ]

\* config = ModelConfig() and the five assignments that follow it
GridConfig(params) ==
    [ ModelConfig EXCEPT
        !.cluster_multipliers[3 + 1]      = At(params, 0),
        !.efficiency_threshold_multiplier = At(params, 1),
        !.log_bonus_coeff                 = At(params, 2),
        !.base_per_diem                   = At(params, 3),
        !.mileage_rates[2 + 1]            = At(params, 4) ]

RECURSIVE SumSeq(_)
SumSeq(q) == IF q = << >> THEN 0 ELSE Head(q) + SumSeq(Tail(q))

\* statistics.mean of a non-empty list
mean(q) == SumSeq(q) \div Len(q)

\* the body of the loop over the cases: the call inside try
RunCase(cfg, inp) == calculate_reimbursement("legacy", cfg, inp[1], inp[2], inp[3])

\* evaluate_config: the error appended for a case, given the outcome of the call
ErrorOf(out, target) ==
    IF out.raised # "none" THEN FailurePenalty ELSE Abs(out.amount - target)

CaseError(cfg, inp, target) == ErrorOf(RunCase(cfg, inp), target)

\* the list errors that evaluate_config builds
CaseErrors(cfg, ins, tgts) == [ i \in 1..Len(ins) |-> CaseError(cfg, ins[i], tgts[i]) ]

\* evaluate_config (on a non-empty data set)
evaluate_config(cfg, ins, tgts) == mean(CaseErrors(cfg, ins, tgts))

\* a sweep that keeps whatever it evaluated last
replaces_without_comparing(error, best) == TRUE

\* a sweep that also replaces the retained best on an equal error
improves_or_ties(error, best) == error <= best

\* the condition under which the sweep replaces the retained best
Improves(error, best) == error < best

\* list.sort(key=error, reverse=True): stable, larger errors first
RECURSIVE InsertByError(_, _)
InsertByError(sorted, c) ==
    IF sorted = << >> THEN << c >>
    ELSE IF Head(sorted).error >= c.error
         THEN << Head(sorted) >> \o InsertByError(Tail(sorted), c)
         ELSE << c >> \o sorted

RECURSIVE SortByErrorDesc(_, _)
SortByErrorDesc(q, acc) ==
    IF q = << >> THEN acc ELSE SortByErrorDesc(Tail(q), InsertByError(acc, Head(q)))

\* analyze_high_error_cases: the tuple appended for case i, given the outcome of the call
CaseEntry(i, inp, target, out) ==
    IF out.raised # "none"
    THEN [ index |-> i, error |-> FailurePenalty, inp |-> inp, target |-> target,
           prediction |-> 0 ]
    ELSE [ index |-> i, error |-> Abs(out.amount - target), inp |-> inp, target |-> target,
           prediction |-> out.amount ]

\* a ranking returned whole, without the slice
all_ranked(ranked) == ranked

\* case_errors[:10]
TopTen(ranked) == SubSeq(ranked, 1, Min(10, Len(ranked)))

\* analyze_high_error_cases
analyze_high_error_cases(ins, tgts, current_config) ==
    TopTen(SortByErrorDesc([ i \in 1..Len(ins) |->
                                CaseEntry(i - 1, ins[i], tgts[i], RunCase(current_config, ins[i])) ],
                           << >>))

\* the labelled cases a data set is drawn from: <<days, miles, receipts, expected>>,
\* the last three in hundredths.  The first is a case the baseline ModelConfig()
\* reproduces; on the other two the calculation raises: a duration of 0 divides
\* by zero, a duration of -1 has no logarithm.
RecordPool ==
    { << 5, 90000, 50000, 98222 >>,
      << 0, 10000, 10000, 30000 >>,
      << -1, 10000, 10000, 30000 >> }

MaxRecords == 2

Datasets == UNION { [1..n -> RecordPool] : n \in 0..MaxRecords }

NoConfig == [none |-> TRUE]

(***************************************************************************)
(* Objects.  ModelConfig() makes a new object whose three list attributes  *)
(* are new lists (they are built inside __init__); the trainer's           *)
(* variables hold references.  The heap maps an address to a list, or to   *)
(* a ModelConfig object whose list attributes are addresses.               *)
(***************************************************************************)
None == 0

EmptyHeap == << >>

ListFields == {"mileage_rates", "receipt_rates", "cluster_multipliers"}

\* the lowest address not in use
FreeAddress(h) ==
    CHOOSE a \in 1..(Cardinality(DOMAIN h) + 1) :
        /\ a \notin DOMAIN h
        /\ \A b \in 1..(a - 1) : b \in DOMAIN h

Allocate(h, obj) == (FreeAddress(h) :> obj) @@ h

\* a list literal evaluated: a new list object
NewList(h, items) == Allocate(h, [class |-> "list", items |-> items])

\* the object that ModelConfig.__init__ fills in, given the addresses of its lists
ConfigObject(mileage, receipt, clusters) ==
    [ f \in DOMAIN ModelConfig \cup {"class"} |->
        IF f = "class" THEN "ModelConfig"
        ELSE IF f = "mileage_rates" THEN mileage
        ELSE IF f = "receipt_rates" THEN receipt
        ELSE IF f = "cluster_multipliers" THEN clusters
        ELSE ModelConfig[f] ]

\* a constructor whose list attributes are the lists of a configuration already made
NewModelConfigSharingLists(h) ==
    IF \E a \in DOMAIN h : h[a].class = "ModelConfig"
    THEN LET other == CHOOSE a \in DOMAIN h : h[a].class = "ModelConfig"
         IN  [ heap |-> Allocate(h, h[other]), addr |-> FreeAddress(h) ]
    ELSE LET h1 == NewList(h, ModelConfig.mileage_rates)
             h2 == NewList(h1, ModelConfig.receipt_rates)
             h3 == NewList(h2, ModelConfig.cluster_multipliers)
         IN  [ heap |-> Allocate(h3, ConfigObject(FreeAddress(h), FreeAddress(h1),
                                                  FreeAddress(h2))),
               addr |-> FreeAddress(h3) ]

\* ModelConfig(): three new lists and the new object that refers to them
NewModelConfig(h) ==
    LET h1 == NewList(h, ModelConfig.mileage_rates)
        h2 == NewList(h1, ModelConfig.receipt_rates)
        h3 == NewList(h2, ModelConfig.cluster_multipliers)
    IN  [ heap |-> Allocate(h3, ConfigObject(FreeAddress(h), FreeAddress(h1), FreeAddress(h2))),
          addr |-> FreeAddress(h3) ]

\* config.<field> = value
SetAttr(h, c, field, value) == [ h EXCEPT ![c][field] = value ]

\* config.<field>[i] = value, i counted from 0
SetItem(h, c, field, i, value) == [ h EXCEPT ![h[c][field]].items[i + 1] = value ]

\* the values read through a reference to a configuration
Deref(h, c) ==
    [ f \in DOMAIN ModelConfig |-> IF f \in ListFields THEN h[h[c][f]].items ELSE h[c][f] ]

\* the objects reachable from the references in roots
Collect(h, roots) ==
    LET keep == roots \cup { h[c][f] : c \in roots, f \in ListFields }
    IN  [ a \in keep |-> h[a] ]

\* a sweep that tunes the multiplier of path 4 instead of path 3
TuneConfigOnPath4(h, c, params) ==
    SetItem(SetAttr(SetAttr(SetAttr(SetItem(h, c, "cluster_multipliers", 4, At(params, 0)),
                                    c, "efficiency_threshold_multiplier", At(params, 1)),
                            c, "log_bonus_coeff", At(params, 2)),
                    c, "base_per_diem", At(params, 3)),
            c, "mileage_rates", 2, At(params, 4))

\* the five assignments of the sweep to the configuration at c
TuneConfig(h, c, params) ==
    SetItem(SetAttr(SetAttr(SetAttr(SetItem(h, c, "cluster_multipliers", 3, At(params, 0)),
                                    c, "efficiency_threshold_multiplier", At(params, 1)),
                            c, "log_bonus_coeff", At(params, 2)),
                    c, "base_per_diem", At(params, 3)),
            c, "mileage_rates", 2, At(params, 4))

TrainInit ==
    /\ tpc = "idle"
    /\ inputs = << >>
    /\ targets = << >>
    /\ current_error = -1
    /\ high_error_cases = << >>
    /\ tested = 0
    /\ best_error = Infinity
    /\ best_config = None
    /\ best_params = << >>
    /\ optimized_errors = << >>
    /\ emitted = NoConfig
    /\ heap = EmptyHeap
    /\ best_evaluated = NoConfig

\* load_training_data: public_cases.json is missing
LoadFails ==
    /\ tpc = "idle"
    /\ tpc' = "failed"
    /\ UNCHANGED << inputs, targets, current_error, high_error_cases, tested, best_error,
                    best_config, best_params, optimized_errors, emitted >>
    /\ UNCHANGED << heap, best_evaluated >>
    /\ UNCHANGED scoreVars

\* inputs, targets = load_training_data()
LoadTrainingData ==
    /\ tpc = "idle"
    /\ \E ds \in Datasets :
          /\ inputs' = [ i \in 1..Len(ds) |->
                          << ds[i][1], FromHundredths(ds[i][2]), FromHundredths(ds[i][3]) >> ]
          /\ targets' = [ i \in 1..Len(ds) |-> FromHundredths(ds[i][4]) ]
    /\ tpc' = "baseline"
    /\ UNCHANGED << current_error, high_error_cases, tested, best_error, best_config,
                    best_params, optimized_errors, emitted >>
    /\ UNCHANGED << heap, best_evaluated >>
    /\ UNCHANGED scoreVars

\* current_error = evaluate_config(ModelConfig(), inputs, targets);
\* mean of an empty list raises StatisticsError, which ends the run
EvaluateBaseline ==
    /\ tpc = "baseline"
    /\ IF Len(inputs) = 0
       THEN /\ tpc' = "failed"
            /\ UNCHANGED current_error
       ELSE /\ current_error' = evaluate_config(ModelConfig, inputs, targets)
            /\ tpc' = "analyze"
    /\ UNCHANGED << inputs, targets, high_error_cases, tested, best_error, best_config,
                    best_params, optimized_errors, emitted >>
    /\ UNCHANGED << heap, best_evaluated >>
    /\ UNCHANGED scoreVars

\* the report of the high-error cases divides miles and receipts by the duration
ReportRaises(cases) == \E k \in 1..Len(cases) : cases[k].inp[1] = 0

(***************************************************************************)
(* high_error_cases = analyze_high_error_cases(...), the report printed    *)
(* for each of them, then best_error = inf, tested = 0.  A listed case     *)
(* with a duration of 0 makes the report raise ZeroDivisionError, which    *)
(* nothing catches before __main__: the run ends there.                    *)
(***************************************************************************)
AnalyzeBaseline ==
    /\ tpc = "analyze"
    /\ high_error_cases' = analyze_high_error_cases(inputs, targets, ModelConfig)
    /\ IF ReportRaises(high_error_cases')
       THEN /\ tpc' = "failed"
            /\ UNCHANGED << best_error, best_config, best_params, tested >>
       ELSE /\ best_error' = Infinity
            /\ best_config' = None
            /\ best_params' = << >>
            /\ tested' = 0
            /\ tpc' = "sweep"
    /\ UNCHANGED << inputs, targets, current_error, optimized_errors, emitted >>
    /\ UNCHANGED << heap, best_evaluated >>
    /\ UNCHANGED scoreVars

(***************************************************************************)
(* if error < best_error: best_error, best_config, best_params = error,    *)
(* config, params.  best_config is bound to the object itself.  The        *)
(* objects no variable of the trainer refers to any more are dropped.      *)
(***************************************************************************)
Retain(params, c, h, error) ==
    IF Improves(error, best_error)
    THEN /\ best_error' = error
         /\ best_config' = c
         /\ best_params' = params
         /\ best_evaluated' = Deref(h, c)
         /\ heap' = Collect(h, {c})
    ELSE /\ UNCHANGED << best_error, best_config, best_params, best_evaluated >>
         /\ heap' = Collect(h, {best_config} \ {None})

\* error = evaluate_config(config, inputs, targets) and the comparison that follows
EvaluateAndRetain(params, c, h) ==
    Retain(params, c, h, evaluate_config(Deref(h, c), inputs, targets))

\* the five assignments to the configuration just constructed, then its evaluation
BuildAndEvaluate(params, made) ==
    EvaluateAndRetain(params, made.addr, TuneConfig(made.heap, made.addr, params))

\* one iteration of  for params in product(*param_ranges.values())
SweepStep ==
    /\ tpc = "sweep"
    /\ tested < total_combinations
    /\ tested' = tested + 1
    /\ BuildAndEvaluate(GridPoint(tested), NewModelConfig(heap))
    /\ UNCHANGED << tpc, inputs, targets, current_error, high_error_cases, optimized_errors,
                    emitted >>
    /\ UNCHANGED scoreVars

\* the loop is exhausted: optimized_errors = analyze_high_error_cases(..., best_config)
SweepDone ==
    /\ tpc = "sweep"
    /\ tested = total_combinations
    /\ optimized_errors' = analyze_high_error_cases(inputs, targets, Deref(heap, best_config))
    /\ tpc' = "done"
    /\ UNCHANGED << inputs, targets, current_error, high_error_cases, tested, best_error,
                    best_config, best_params, emitted >>
    /\ UNCHANGED << heap, best_evaluated >>
    /\ UNCHANGED scoreVars

\* generate_optimized_script(best_config): the constants written into the new script
GenerateOptimizedScript ==
    /\ tpc = "done"
    /\ emitted' = Deref(heap, best_config)
    /\ tpc' = "generated"
    /\ UNCHANGED << inputs, targets, current_error, high_error_cases, tested, best_error,
                    best_config, best_params, optimized_errors >>
    /\ UNCHANGED << heap, best_evaluated >>
    /\ UNCHANGED scoreVars

(***************************************************************************)
(* load_training_data stepped case by case, for data sets longer than the  *)
(* ten entries analyze_high_error_cases keeps.                             *)
(***************************************************************************)
\* the cases of such a file: one the baseline reproduces, one that raises
CasePool == { << 5, 90000, 50000, 98222 >>, << -1, 10000, 10000, 30000 >> }

MaxCases == 11

\* with open(filename) as f: data = json.load(f); inputs = []; targets = []
OpenTrainingData ==
    /\ tpc = "idle"
    /\ tpc' = "loading"
    /\ UNCHANGED << inputs, targets, current_error, high_error_cases, tested, best_error,
                    best_config, best_params, optimized_errors, emitted >>
    /\ UNCHANGED << heap, best_evaluated >>
    /\ UNCHANGED scoreVars

\* for case in data: inputs.append([...]); targets.append(case['expected_output'])
AppendCase ==
    /\ tpc = "loading"
    /\ Len(inputs) < MaxCases
    /\ \E c \in CasePool :
          /\ inputs' = Append(inputs, << c[1], FromHundredths(c[2]), FromHundredths(c[3]) >>)
          /\ targets' = Append(targets, FromHundredths(c[4]))
    /\ UNCHANGED << tpc, current_error, high_error_cases, tested, best_error, best_config,
                    best_params, optimized_errors, emitted >>
    /\ UNCHANGED << heap, best_evaluated >>
    /\ UNCHANGED scoreVars

\* return inputs, targets
LoadReturn ==
    /\ tpc = "loading"
    /\ tpc' = "baseline"
    /\ UNCHANGED << inputs, targets, current_error, high_error_cases, tested, best_error,
                    best_config, best_params, optimized_errors, emitted >>
    /\ UNCHANGED << heap, best_evaluated >>
    /\ UNCHANGED scoreVars

\* the trainer up to the start of the sweep
AnalyzeNext ==
    \/ OpenTrainingData
    \/ AppendCase
    \/ LoadReturn
    \/ EvaluateBaseline
    \/ AnalyzeBaseline

TrainNext ==
    \/ LoadFails
    \/ LoadTrainingData
    \/ EvaluateBaseline
    \/ AnalyzeBaseline
    \/ SweepStep
    \/ SweepDone
    \/ GenerateOptimizedScript

Init == ScoreInit /\ TrainInit

\* the scoring programs: the command line and direct calls
Next == ScoreNext

Spec == Init /\ [][Next]_vars

\* the trainer
TrainSpec == Init /\ [][TrainNext]_vars

\* the trainer's analysis of the baseline, on data sets of up to MaxCases cases
AnalyzeSpec == Init /\ [][AnalyzeNext]_vars
(***************************************************************************)
(* Positions of calculate_reimbursement.                                   *)
(***************************************************************************)
Statements == << "features", "cluster", "base", "adjust", "threshold", "bug",
                 "interaction", "clamp", "round", "returned" >>

StatementIndex(p) == CHOOSE i \in 1..Len(Statements) : Statements[i] = p

\* the call is under way or has returned, and the statement at position p has run
Past(p) ==
    \/ pc = "exit" /\ exit_code = 0
    \/ /\ pc \in { Statements[i] : i \in 1..Len(Statements) }
       /\ StatementIndex(pc) > StatementIndex(p)

\* the call in progress has valid arguments
ValidCall == ValidInput(trip_duration_days, miles_traveled, total_receipts_amount)

(***************************************************************************)
(* C1.  For every valid input and every configuration the amount returned  *)
(* lies in [50.00, 5000.00] and has at most two decimals, and it is the    *)
(* rounding of the clamped amount: the value handed to round() is already  *)
(* within the bounds.                                                      *)
(***************************************************************************)
C1_OutputClampedAndRounded ==
    /\ (ValidCall /\ pc = "round") =>
          (50 * FP <= final_amount /\ final_amount <= 5000 * FP)
    /\ (ValidCall /\ Past("round")) =>
          /\ 50 * FP <= result /\ result <= 5000 * FP
          /\ result % 100 = 0
          /\ result = Round2(final_amount)

\* a valid call whose amount exceeded 5000 before the clamp has returned 5000.00
C1_Witness ==
    /\ ValidCall
    /\ pc = "returned"
    /\ threshold_adjusted > 5000 * FP
    /\ result = 5000 * FP
(***************************************************************************)
(* The rules of the path selector stated on the arguments of the call,     *)
(* with miles per day compared exactly (miles/day > x is miles > x*days).  *)
(***************************************************************************)
Rule1 == 2 * trip_duration_days <= 3 /\ miles_traveled > 500 * FP * trip_duration_days
Rule2 == trip_duration_days > 8 /\ miles_traveled < 50 * FP * trip_duration_days
Rule3 == 3 <= trip_duration_days /\ trip_duration_days <= 5 /\ total_receipts_amount > 1500 * FP
Rule4 == /\ 4 <= trip_duration_days /\ trip_duration_days <= 7
         /\ miles_traveled > 150 * FP * trip_duration_days
         /\ total_receipts_amount < 800 * FP
Rule5 == trip_duration_days > 8 /\ total_receipts_amount > 1200 * FP

RuleMatches == << Rule1, Rule2, Rule3, Rule4, Rule5, TRUE >>

\* the path of the first rule that matches
FirstMatch == (CHOOSE i \in 1..6 : RuleMatches[i] /\ \A j \in 1..(i - 1) : ~RuleMatches[j]) - 1

(***************************************************************************)
(* C2.  determine_cluster is total and exclusive: for a valid input it     *)
(* returns one path in 0..5, the path of the first rule that matches in    *)
(* the order 1..5, else 5; an input matching rules 2 and 5 gets path 1.    *)
(***************************************************************************)
C2_FirstMatchingRuleWins ==
    (ValidCall /\ Past("cluster")) =>
        /\ cluster \in 0..5
        /\ cluster = FirstMatch
        /\ (Rule2 /\ Rule5) => cluster = 1

\* a valid call matching both rule 2 and rule 5 was given path 1
C2_Witness == ValidCall /\ Past("cluster") /\ Rule2 /\ Rule5 /\ cluster = 1

\* the arguments duration=10, miles=300, receipts=1500.00
IsTenDays300Miles1500 ==
    /\ trip_duration_days = 10
    /\ miles_traveled = 300 * FP
    /\ total_receipts_amount = 1500 * FP

(***************************************************************************)
(* C3 as stated: for duration=10, miles=300, receipts=1500.00 the path     *)
(* selector returns path 4.                                                *)
(***************************************************************************)
C3_Original == (IsTenDays300Miles1500 /\ Past("cluster")) => cluster = 4

(***************************************************************************)
(* C3, amended.  For duration=10, miles=300, receipts=1500.00 the path     *)
(* selector returns path 1: the input has 30 miles per day, so rule 2      *)
(* (duration > 8, miles/day < 50) matches before rule 5.                   *)
(***************************************************************************)
C3_Amended == (IsTenDays300Miles1500 /\ Past("cluster")) => (Rule2 /\ cluster = 1)

\* the call with these arguments has had its path selected
C3_Witness == IsTenDays300Miles1500 /\ pc = "base" /\ cluster = 1

\* the vacation flag stated on the arguments: duration >= 8 and receipts/day > 120
VacationFlag == trip_duration_days >= 8 /\ total_receipts_amount > 120 * FP * trip_duration_days

(***************************************************************************)
(* C4 as stated: one multiplication of the base amount; on path 3 by the   *)
(* vacation-bonus multiplier when the vacation flag is set and by the      *)
(* vacation-base multiplier when it is not, on every other path p by       *)
(* entry p of the path-multiplier table.                                   *)
(***************************************************************************)
C4_Original ==
    (ValidCall /\ Past("adjust")) =>
        adjusted_amount =
            Mul(base_amount,
                IF cluster = 3 /\ VacationFlag THEN config.vacation_bonus_multiplier
                ELSE IF cluster = 3 THEN config.vacation_base_multiplier
                ELSE At(config.cluster_multipliers, cluster))

(***************************************************************************)
(* C4, amended.  The path adjuster multiplies the base amount once: on     *)
(* path 4 by the vacation-bonus multiplier when the vacation flag is set   *)
(* and by the vacation-base multiplier when it is not, and on every other  *)
(* path p (0, 1, 2, 3, 5) by entry p of the path-multiplier table.         *)
(***************************************************************************)
C4_Amended ==
    (ValidCall /\ Past("adjust")) =>
        adjusted_amount =
            Mul(base_amount,
                IF cluster = 4 /\ VacationFlag THEN config.vacation_bonus_multiplier
                ELSE IF cluster = 4 THEN config.vacation_base_multiplier
                ELSE At(config.cluster_multipliers, cluster))

\* a valid call on path 4 with the vacation flag set has been adjusted
C4_Witness ==
    /\ ValidCall /\ pc = "threshold" /\ cluster = 4 /\ VacationFlag
    /\ adjusted_amount = Mul(base_amount, config.vacation_bonus_multiplier)
    /\ adjusted_amount # Mul(base_amount, At(config.cluster_multipliers, 4))

\* the amount that entered the interaction effects of the call in progress
BeforeInteraction == apply_rounding_bug(config, threshold_adjusted, Feat(features, 11))

(***************************************************************************)
(* C5.  The interaction effects add two terms to the running amount: the   *)
(* duration x receipts/day feature times interaction_coeff, and            *)
(* ln(receipts + 1) times log_bonus_coeff, the logarithm being the         *)
(* log-of-receipts feature and not the log of miles or of duration.        *)
(***************************************************************************)
C5_LogBonusFromLogOfReceipts ==
    (ValidCall /\ pc = "clamp") =>
        /\ Feat(features, 33) = Ln(total_receipts_amount + FP)
        /\ final_amount = BeforeInteraction
                            + (Mul(Feat(features, 23), config.interaction_coeff) \div 1000)
                            + Mul(Feat(features, 33), config.log_bonus_coeff)

\* the arguments duration=5, miles=900, receipts=1200.00
IsFiveDays900Miles1200 ==
    /\ trip_duration_days = 5
    /\ miles_traveled = 900 * FP
    /\ total_receipts_amount = 1200 * FP

\* the tests of the threshold corrector stated on the arguments of the call
TestA == trip_duration_days = 5
TestB == total_receipts_amount > 6605400
TestC == miles_traveled > 1870100 * trip_duration_days
TestD == miles_traveled > 4738000

\* the running amount after each test, in the order (a), (b), (c), (d)
AfterA == IF TestA THEN Mul(adjusted_amount, config.five_day_multiplier) ELSE adjusted_amount
AfterB == IF TestB THEN Mul(AfterA, config.receipt_threshold_multiplier) ELSE AfterA
AfterC == IF TestC THEN Mul(AfterB, config.efficiency_threshold_multiplier) ELSE AfterB
AfterD == IF TestD THEN Mul(AfterC, config.miles_threshold_multiplier) ELSE AfterC

(***************************************************************************)
(* C6.  The threshold corrector tests four conditions independently and    *)
(* multiplies the running amount in the order (a) duration = 5, (b)        *)
(* receipts > 660.54, (c) miles/day > 187.01, (d) miles > 473.8; for       *)
(* duration=5, miles=900, receipts=1200.00 it applies (a), (b) and (d) in  *)
(* that order and not (c).                                                 *)
(***************************************************************************)
C6_ThresholdsInOrder ==
    /\ (ValidCall /\ Past("threshold")) => threshold_adjusted = AfterD
    /\ (IsFiveDays900Miles1200 /\ Past("threshold")) =>
           /\ TestA /\ TestB /\ ~TestC /\ TestD
           /\ threshold_adjusted =
                 Mul(Mul(Mul(adjusted_amount, config.five_day_multiplier),
                         config.receipt_threshold_multiplier),
                     config.miles_threshold_multiplier)

\* the call with duration=5, miles=900, receipts=1200.00 has been corrected
C6_Witness ==
    /\ IsFiveDays900Miles1200
    /\ pc = "bug"
    /\ threshold_adjusted > Mul(adjusted_amount, config.five_day_multiplier)
    /\ threshold_adjusted # Mul(AfterB, config.efficiency_threshold_multiplier)

\* the cents of the receipt amount of the call, to the nearest integer
RoundedCents == (total_receipts_amount \div 100) % 100

(***************************************************************************)
(* C7.  The bug emulator fires exactly when the cents of the receipt       *)
(* amount, (receipts * 100) mod 100 rounded to the nearest integer, are 49 *)
(* or 99: it then adds bug_base_bonus + amount * bug_multiplier to the     *)
(* running amount, and otherwise passes the amount through unchanged;      *)
(* receipts=49.49 fires and receipts=49.50 does not.                       *)
(***************************************************************************)
C7_FiresExactlyOnCents49Or99 ==
    (ValidCall /\ pc = "interaction") =>
        /\ final_amount =
              IF RoundedCents \in {49, 99}
              THEN threshold_adjusted
                   + (config.bug_base_bonus \div 10 + Mul(threshold_adjusted, config.bug_multiplier))
              ELSE threshold_adjusted
        /\ total_receipts_amount = 494900 => final_amount > threshold_adjusted
        /\ total_receipts_amount = 495000 => final_amount = threshold_adjusted

(***************************************************************************)
(* C8.  Under the constants of ModelConfig, for every valid input whose    *)
(* receipt cents are 49 or 99 the amount after the bug emulator is at      *)
(* least the amount before it: the amount entering the emulator is never   *)
(* negative, so the bonus is never negative.                               *)
(***************************************************************************)
C8_BugNeverLowersAmount ==
    (ValidCall /\ config = ModelConfig /\ pc = "interaction" /\ RoundedCents \in {49, 99}) =>
        /\ threshold_adjusted >= 0
        /\ config.bug_base_bonus \div 10 + Mul(threshold_adjusted, config.bug_multiplier) >= 0
        /\ final_amount >= threshold_adjusted

\* the emulator has fired on receipts ending in 99 cents and raised the amount
C8_Witness ==
    /\ ValidCall /\ config = ModelConfig /\ pc = "interaction"
    /\ RoundedCents = 99
    /\ Feat(features, 11) = 1
    /\ final_amount > threshold_adjusted

(***************************************************************************)
(* C9.  When calculate_reimbursement is called with duration <= 0, or      *)
(* with negative miles or negative receipts, it fails with an error that   *)
(* is raised before any stage of the pipeline runs: no feature vector is   *)
(* built, no path is selected, and no amount is returned.                  *)
(***************************************************************************)
C9_InvalidCallRejectedBeforeStages ==
    (caller = "direct" /\ pc # "idle" /\ ~ValidCall) =>
        /\ pc \in {"features", "raised"}
        /\ pc = "raised" => exception # "none"
        /\ features = << >>
        /\ cluster = -1
        /\ result = -1

\* the sweep of the run in progress has completed
SweepCompleted == tpc \in {"done", "generated"}

\* the configuration best_config refers to, as it reads now
BestConfig == IF best_config = None THEN NoConfig ELSE Deref(heap, best_config)

\* the configuration a constructor call and the five assignments yield on this heap
Built(made, params) == Deref(TuneConfig(made.heap, made.addr, params), made.addr)

\* the configuration the next iteration of the sweep evaluates
Candidate == Built(NewModelConfig(heap), GridPoint(tested))

\* the mean absolute error of the i-th grid point on the data of the run
GridError(i) == evaluate_config(GridConfig(GridPoint(i)), inputs, targets)

(***************************************************************************)
(* C10.  After the grid sweep of optimize_parameters completes, best_error *)
(* is at most the mean absolute error of every grid point evaluated, and   *)
(* best_config is a configuration of the grid that was evaluated to        *)
(* best_error.  Nothing relates best_error to the baseline's error.        *)
(***************************************************************************)
C10_BestErrorIsGridMinimum ==
    SweepCompleted =>
        /\ tested = total_combinations
        /\ \A i \in 0..(total_combinations - 1) : best_error <= GridError(i)
        /\ \E i \in 0..(total_combinations - 1) :
              /\ best_params = GridPoint(i)
              /\ BestConfig = GridConfig(best_params)
              /\ best_error = GridError(i)

\* a completed sweep whose best error is worse than the baseline's
C10_Witness ==
    /\ tpc = "done"
    /\ tested = total_combinations
    /\ best_config # None
    /\ best_error > current_error

\* the records of the data set on which calculate_reimbursement raises:
\* a duration of 0 divides by zero, an argument of -1 or less has no logarithm
Raises(inp) == inp[1] <= 0 \/ inp[2] <= -FP \/ inp[3] <= -FP

\* the absolute errors of all records under cfg, a raising record counted as 1000.0
PenalisedErrors(cfg) ==
    [ i \in 1..Len(inputs) |->
        IF Raises(inputs[i]) THEN 1000 * FP
        ELSE Abs(calculate_reimbursement("legacy", cfg, inputs[i][1], inputs[i][2],
                                         inputs[i][3]).amount - targets[i]) ]

(***************************************************************************)
(* C11.  During calibration a record whose evaluation raises is scored as  *)
(* an absolute error of exactly 1000.0; the other records of the           *)
(* configuration and all remaining grid points are still evaluated: the    *)
(* run fails only when the data cannot be loaded or is empty, never        *)
(* because of a raising record.                                            *)
(***************************************************************************)
C11_FailingRecordScored1000 ==
    /\ tpc = "failed" => (inputs = << >> /\ tested = 0)
    /\ tpc = "analyze" => current_error = mean(PenalisedErrors(ModelConfig))
    /\ tpc = "sweep" => tested \in 0..total_combinations
    /\ SweepCompleted =>
          /\ tested = total_combinations
          /\ Len(PenalisedErrors(BestConfig)) = Len(inputs)
          /\ best_error = mean(PenalisedErrors(BestConfig))

\* the call in progress has the arguments of the first call that returned
RepeatsFirstCall ==
    /\ caller = "direct"
    /\ first_call # NoCall
    /\ trip_duration_days = first_call.trip_duration_days
    /\ miles_traveled = first_call.miles_traveled
    /\ total_receipts_amount = first_call.total_receipts_amount

(***************************************************************************)
(* C12.  calculate_reimbursement is deterministic and stateless: scoring   *)
(* leaves system.config as the caller set it; a call with the arguments    *)
(* and the configuration of an earlier call returns the amount that call   *)
(* returned, whatever calls were made in between; and the feature vector   *)
(* and the path of a call with the same three arguments are the same       *)
(* under any configuration.                                                *)
(***************************************************************************)
C12_DeterministicAndStateless ==
    /\ (caller = "direct" /\ pc # "idle") => config \in {ModelConfig, ZeroPerDiemConfig}
    /\ (RepeatsFirstCall /\ Past("features")) => features = first_call.features
    /\ (RepeatsFirstCall /\ Past("cluster")) => cluster = first_call.cluster
    /\ (RepeatsFirstCall /\ config = first_call.config /\ pc = "returned") =>
           result = first_call.amount

\* the first call is repeated after a different call, and returns the same amount
C12_Witness ==
    /\ ValidCall
    /\ RepeatsFirstCall
    /\ first_call.others_since
    /\ config = first_call.config
    /\ pc = "returned"
    /\ result = first_call.amount
    /\ result > 50 * FP

\* analyze_high_error_cases has returned the baseline's ranking
Analyzed == tpc \in {"sweep", "done", "generated"} \/ (tpc = "failed" /\ high_error_cases # << >>)

\* the absolute error of case i (counted from 1) under the baseline
BaselineError(i) ==
    IF Raises(inputs[i]) THEN 1000 * FP
    ELSE Abs(RunCase(ModelConfig, inputs[i]).amount - targets[i])

(***************************************************************************)
(* C13.  analyze_high_error_cases returns the min(10, N) cases with the    *)
(* largest absolute error under the configuration, in order of             *)
(* non-increasing error, each entry with its case index, inputs, expected  *)
(* value and prediction; a case whose evaluation fails is listed with      *)
(* error 1000.0.                                                           *)
(***************************************************************************)
C13_TopTenByError ==
    Analyzed =>
        /\ Len(high_error_cases) = Min(10, Len(inputs))
        /\ \A k \in 1..(Len(high_error_cases) - 1) :
              high_error_cases[k].error >= high_error_cases[k + 1].error
        /\ \A k \in 1..Len(high_error_cases) :
              LET e == high_error_cases[k]
              IN  /\ e.index \in 0..(Len(inputs) - 1)
                  /\ e.inp = inputs[e.index + 1]
                  /\ e.target = targets[e.index + 1]
                  /\ IF Raises(e.inp)
                     THEN e.error = 1000 * FP
                     ELSE /\ e.prediction = RunCase(ModelConfig, e.inp).amount
                          /\ e.error = Abs(e.prediction - e.target)
        /\ \A k, l \in 1..Len(high_error_cases) :
              k # l => high_error_cases[k].index # high_error_cases[l].index
        /\ \A i \in 1..Len(inputs) :
              \/ \E k \in 1..Len(high_error_cases) : high_error_cases[k].index = i - 1
              \/ BaselineError(i) <= high_error_cases[Len(high_error_cases)].error

\* eleven cases were analyzed: ten are listed, raising ones first, and one is left out
C13_Witness ==
    /\ tpc = "sweep"
    /\ Len(inputs) = 11
    /\ Len(high_error_cases) = 10
    /\ high_error_cases[1].error = 1000 * FP
    /\ high_error_cases[1].prediction = 0
    /\ high_error_cases[10].error < 1000 * FP

(***************************************************************************)
(* Which threshold corrections fire on a feature vector: the corrector is  *)
(* run on the amount 1 under multipliers 2, 3, 5 and 7, so that the        *)
(* product it returns names the set of corrections applied.                *)
(***************************************************************************)
Corrections == {"five_day", "receipt_threshold", "efficiency_threshold", "miles_threshold"}

Prime(c) == CASE c = "five_day" -> 2
              [] c = "receipt_threshold" -> 3
              [] c = "efficiency_threshold" -> 5
              [] c = "miles_threshold" -> 7

ProbeConfig ==
    [ ModelConfig EXCEPT !.five_day_multiplier = 2 * 100000,
                         !.receipt_threshold_multiplier = 3 * 100000,
                         !.efficiency_threshold_multiplier = 5 * 100000,
                         !.miles_threshold_multiplier = 7 * 100000 ]

FiredSet(f) == { c \in Corrections : apply_threshold_effects(ProbeConfig, 1, f) % Prime(c) = 0 }

\* some valid input among those explored fires exactly the corrections in S
SomeValidInputFires(S) ==
    \E d \in Durations, m \in MilesInputs, r \in ReceiptInputs :
        /\ ValidInput(d, FromHundredths(m), FromHundredths(r))
        /\ FiredSet(engineer_features(variant, d, FromHundredths(m), FromHundredths(r))) = S

\* a five-day trip above 187.01 miles a day has more than 935.05 miles
Feasible ==
    { S \in SUBSET Corrections :
        ~({"five_day", "efficiency_threshold"} \subseteq S /\ "miles_threshold" \notin S) }

(***************************************************************************)
(* C14 as stated: every one of the 16 subsets of the four threshold        *)
(* corrections is fired by at least one valid input.                       *)
(***************************************************************************)
C14_Original == pc = "idle" => \A S \in SUBSET Corrections : SomeValidInputFires(S)

(***************************************************************************)
(* C14, amended.  Fourteen of the 16 subsets of the four threshold         *)
(* corrections are each fired by at least one valid input; the two subsets *)
(* that hold the five-day and the efficiency correction without the miles  *)
(* correction are fired by none, since 5 days at more than 187.01 miles a  *)
(* day is more than 473.8 miles.                                           *)
(***************************************************************************)
C14_Amended ==
    /\ Cardinality(Feasible) = 14
    /\ pc = "idle" => \A S \in SUBSET Corrections : SomeValidInputFires(S) <=> S \in Feasible
    /\ (ValidCall /\ Past("features")) => FiredSet(features) \in Feasible

\* a valid call on which all four corrections fired
C14_Witness ==
    /\ ValidCall
    /\ pc = "bug"
    /\ FiredSet(features) = Corrections
    /\ threshold_adjusted =
          Mul(Mul(Mul(Mul(adjusted_amount, config.five_day_multiplier),
                      config.receipt_threshold_multiplier),
                  config.efficiency_threshold_multiplier),
              config.miles_threshold_multiplier)
    /\ threshold_adjusted > adjusted_amount

\* the position of the retained parameters in the enumeration of the grid
BestIndex == CHOOSE i \in 0..(total_combinations - 1) : GridPoint(i) = best_params

(***************************************************************************)
(* C15.  The retained best is replaced only on a strict improvement: at    *)
(* the end of the sweep every grid point enumerated before the retained    *)
(* one has a strictly larger error, so of grid points with equal error     *)
(* the earliest in the enumeration order is the one retained.              *)
(***************************************************************************)
C15_TiesKeepEarliest ==
    SweepCompleted =>
        /\ best_params = GridPoint(BestIndex)
        /\ GridError(BestIndex) = best_error
        /\ \A j \in 0..(BestIndex - 1) : GridError(j) > best_error

\* a completed sweep in which a later grid point ties with the retained one
C15_Witness ==
    /\ tpc = "done"
    /\ best_error < 1000 * FP
    /\ \E j \in (BestIndex + 1)..(total_combinations - 1) : GridError(j) = best_error

\* the scalar fields the sweep assigns, and the lists it assigns one entry of
TunedScalars == {"efficiency_threshold_multiplier", "log_bonus_coeff", "base_per_diem"}
TunedLists == {"cluster_multipliers", "mileage_rates"}

\* list b equals list a except possibly at index i (counted from 0)
SameExceptAt(a, b, i) ==
    /\ Len(a) = Len(b)
    /\ \A k \in 1..Len(a) : k # i + 1 => a[k] = b[k]

\* cfg differs from the baseline in at most the five tuned values
BaselineButTuned(cfg) ==
    /\ DOMAIN cfg = DOMAIN ModelConfig
    /\ \A f \in DOMAIN ModelConfig \ (TunedScalars \cup TunedLists) : cfg[f] = ModelConfig[f]
    /\ SameExceptAt(ModelConfig.cluster_multipliers, cfg.cluster_multipliers, 3)
    /\ SameExceptAt(ModelConfig.mileage_rates, cfg.mileage_rates, 2)

(***************************************************************************)
(* C16.  Each configuration the calibrator evaluates differs from the      *)
(* baseline ModelConfig in at most five values: path multiplier 3, the     *)
(* efficiency-threshold multiplier, the log-bonus coefficient, the base    *)
(* per diem and mileage rate 2; every other field, the other five path     *)
(* multipliers, the other two mileage rates and all receipt rates          *)
(* included, has its baseline value.                                       *)
(***************************************************************************)
C16_OnlyFiveFieldsTuned ==
    /\ (tpc = "sweep" /\ tested < total_combinations) => BaselineButTuned(Candidate)
    /\ best_evaluated # NoConfig => BaselineButTuned(best_evaluated)
    /\ best_config # None =>
           (BaselineButTuned(BestConfig) /\ BestConfig.receipt_rates = ModelConfig.receipt_rates)
    /\ emitted # NoConfig => BaselineButTuned(emitted)

\* a retained configuration that differs from the baseline in all five values
C16_Witness ==
    /\ tpc = "done"
    /\ BaselineButTuned(BestConfig)
    /\ BestConfig.cluster_multipliers[4] # ModelConfig.cluster_multipliers[4]
    /\ BestConfig.mileage_rates[3] # ModelConfig.mileage_rates[3]
    /\ \A f \in TunedScalars : BestConfig[f] # ModelConfig[f]

(***************************************************************************)
(* C17.  The configurations the calibrator builds are independent and are  *)
(* not written after they are built: building and evaluating a later grid  *)
(* point changes no field and no list entry of an earlier one, so the      *)
(* configuration retained as best reads, at every later moment and when    *)
(* the sweep ends, exactly as it did when it was evaluated; and the        *)
(* configuration built for a grid point, hence its error, does not depend  *)
(* on the grid points built before it.                                     *)
(***************************************************************************)
C17_ConfigurationsIndependent ==
    /\ best_config # None => BestConfig = best_evaluated
    /\ (tpc = "sweep" /\ tested < total_combinations) =>
           Candidate = GridConfig(GridPoint(tested))
    /\ SweepCompleted =>
           /\ BestConfig = GridConfig(best_params)
           /\ best_error = GridError(BestIndex)
    /\ emitted # NoConfig => emitted = best_evaluated

\* the sweep ended with a best configuration after which other grid points,
\* with other values in both tuned lists, were built and evaluated
C17_Witness ==
    /\ tpc = "done"
    /\ best_config # None
    /\ BestIndex < total_combinations - 1
    /\ BestConfig = best_evaluated
    /\ BestConfig.cluster_multipliers[4] # GridPoint(total_combinations - 1)[1]
    /\ BestConfig.mileage_rates[3] # GridPoint(total_combinations - 1)[5]

\* the bonus of the bug emulator for the call in progress
BugBonus ==
    IF Feat(features, 11) # 0
    THEN config.bug_base_bonus \div 10 + Mul(threshold_adjusted, config.bug_multiplier)
    ELSE 0

\* the two terms the interaction effects add
InteractionTerm == Mul(Feat(features, 23), config.interaction_coeff) \div 1000
LogTerm == Mul(Feat(features, 32), config.log_bonus_coeff)

\* what each stage has produced, from the outputs of the stages before it
StageOutputs ==
    ValidCall =>
        /\ Past("base") =>
               base_amount = calculate_base_reimbursement(variant, config, trip_duration_days,
                                                          miles_traveled, total_receipts_amount)
        /\ Past("adjust") =>
               adjusted_amount = apply_cluster_adjustments(config, base_amount, cluster, features)
        /\ Past("threshold") =>
               threshold_adjusted = apply_threshold_effects(config, adjusted_amount, features)
        /\ pc = "interaction" => final_amount = threshold_adjusted + BugBonus
        /\ pc = "clamp" =>
               final_amount = (threshold_adjusted + BugBonus) + InteractionTerm + LogTerm
        /\ pc = "round" =>
               final_amount = clamp((threshold_adjusted + BugBonus) + InteractionTerm + LogTerm)
        /\ Past("round") => result = Round2(final_amount)

\* a step of the call moves to the statement that follows, or raises in the first one
StageStep ==
    (pc \in { Statements[i] : i \in 1..(Len(Statements) - 1) } /\ pc' # pc) =>
        \/ pc' = Statements[StatementIndex(pc) + 1]
        \/ pc = "features" /\ pc' = "raised"

(***************************************************************************)
(* C18.  The stages of calculate_reimbursement run in the order base       *)
(* formula, path multiplier, threshold corrections, bug emulator,          *)
(* interaction terms, clamp, round, each computed from the outputs of the  *)
(* stages before it: the bug bonus is computed from the amount after the   *)
(* threshold corrections, and the interaction and log terms are added      *)
(* after the bonus and are multiplied by no multiplier.                    *)
(***************************************************************************)
C18_StagesInOrder == [](StageOutputs) /\ [][StageStep]_vars

\* a call whose amount every stage changed has reached the clamp
C18_Witness ==
    /\ ValidCall /\ pc = "clamp"
    /\ adjusted_amount # base_amount
    /\ threshold_adjusted > adjusted_amount
    /\ BugBonus > 0
    /\ InteractionTerm > 0 /\ LogTerm > 0
    /\ final_amount = threshold_adjusted + BugBonus + InteractionTerm + LogTerm

\* receipt amounts and distances on both sides of every tier boundary
ReceiptProbes == { 0, 49 * FP, 50 * FP, 50 * FP + 100, 499 * FP, 500 * FP, 500 * FP + 100,
                   1499 * FP, 1500 * FP, 1500 * FP + 100, 2500 * FP }
MilesProbes == { 0, 99 * FP, 100 * FP, 100 * FP + 100, 499 * FP, 500 * FP, 500 * FP + 100,
                 900 * FP }

\* the base reimbursement of the call in progress, had its receipts been r
BaseAtReceipts(r) ==
    calculate_base_reimbursement(variant, config, trip_duration_days, miles_traveled, r)

\* the base reimbursement of the call in progress, had its miles been m
BaseAtMiles(m) ==
    calculate_base_reimbursement(variant, config, trip_duration_days, m, total_receipts_amount)

(***************************************************************************)
(* C19.  Under the constants of ModelConfig, with duration and miles held  *)
(* fixed the base reimbursement is non-decreasing in the receipt amount,   *)
(* and with duration and receipts held fixed it is non-decreasing in the   *)
(* miles, across the tier boundaries too.                                  *)
(***************************************************************************)
C19_BaseMonotone ==
    (ValidCall /\ config = ModelConfig /\ Past("base")) =>
        /\ \A r \in ReceiptProbes :
               /\ r >= total_receipts_amount => BaseAtReceipts(r) >= base_amount
               /\ r <= total_receipts_amount => BaseAtReceipts(r) <= base_amount
        /\ \A m \in MilesProbes :
               /\ m >= miles_traveled => BaseAtMiles(m) >= base_amount
               /\ m <= miles_traveled => BaseAtMiles(m) <= base_amount

\* the configuration c with entry p of the path-multiplier table set to x
WithEntry(c, p, x) == [ c EXCEPT !.cluster_multipliers[p + 1] = x ]

\* other values for entry p of the table of c
OtherValues(c, p) == { 0, 100000, At(c.cluster_multipliers, p) + 50000 } \ { At(c.cluster_multipliers, p) }

\* the amount returned for the features f of a valid input changes when entry p is set to x
ScoreChanges(d, m, r, f, p, x) ==
    score_features(variant, ModelConfig, d, m, r, f)
        # score_features(variant, WithEntry(ModelConfig, p, x), d, m, r, f)

\* entry p of the table changes the amount of some valid input among those explored
Influences(p) ==
    \E d \in Durations, m \in MilesInputs, r \in ReceiptInputs :
        /\ ValidInput(d, FromHundredths(m), FromHundredths(r))
        /\ \E x \in OtherValues(ModelConfig, p) :
               ScoreChanges(d, FromHundredths(m), FromHundredths(r),
                            engineer_features(variant, d, FromHundredths(m), FromHundredths(r)),
                            p, x)

\* the adjusted amount of the call in progress, had entry p of the table been x
AdjustedWith(p, x) ==
    apply_cluster_adjustments(WithEntry(config, p, x), base_amount, cluster, features)

(***************************************************************************)
(* C20 as stated: each of the six entries of the path-multiplier table     *)
(* changes the amount of at least one valid input.                         *)
(***************************************************************************)
C20_Original == pc = "idle" => \A p \in 0..5 : Influences(p)

(***************************************************************************)
(* C20, amended.  The entries 0, 1, 2, 3 and 5 of the path-multiplier      *)
(* table each change the amount of at least one valid input; entry 4       *)
(* changes the amount of none, since a call on path 4 is multiplied by     *)
(* one of the two vacation multipliers and never by the table.             *)
(***************************************************************************)
C20_Amended ==
    /\ pc = "idle" => \A p \in 0..5 : Influences(p) <=> p # 4
    /\ (ValidCall /\ Past("adjust")) =>
           /\ \A x \in OtherValues(config, 4) : AdjustedWith(4, x) = adjusted_amount
           /\ cluster = 4 =>
                  adjusted_amount \in { Mul(base_amount, config.vacation_bonus_multiplier),
                                        Mul(base_amount, config.vacation_base_multiplier) }
           /\ (cluster # 4 /\ base_amount >= FP) =>
                  \A x \in OtherValues(config, cluster) : AdjustedWith(cluster, x) # adjusted_amount

\* a call on path 4 has returned the amount it returns whatever entry 4 of the table is
C20_Witness ==
    /\ ValidCall /\ pc = "returned" /\ cluster = 4
    /\ config = ModelConfig
    /\ adjusted_amount # base_amount
    /\ Mul(base_amount, 100000) # adjusted_amount
    /\ \A x \in OtherValues(config, 4) :
           /\ AdjustedWith(4, x) = adjusted_amount
           /\ ~ScoreChanges(trip_duration_days, miles_traveled, total_receipts_amount,
                            features, 4, x)
====
